---- MODULE Spec2Model ----
(***************************************************************************)
(* Model of query/outputnode.go: the fastJsonNode output tree, its         *)
(* encoder, the @normalize flattening (merge / normalize) and the          *)
(* recursive tree builder (ToJson / processNodeUids / preTraverse).        *)
(***************************************************************************)
EXTENDS Integers, Sequences, FiniteSets, TLC

VARIABLES
    stack,      \* output nodes under construction: stack[1] is dst, the top is the scratch child uc
    out,        \* the writes made to the bytes.Buffer by toFastJSON / encode, in order
    encoded,    \* TRUE once the tree has been serialised
    NormalizeNodeLimit, \* x.Config.NormalizeNodeLimit
    parentSlice,        \* merge: the parent argument
    childSlice,         \* merge: the child argument
    sorted,             \* normalize: parentSlice of the outermost call after sort.Sort of every row
    normalized,         \* what merge / normalize returned: [rows, err]
    normDone,           \* "" before the call, "merge" or "normalize" after it
    sg,         \* the query and its results: the chain of SubGraphs handed to ToJson
    phase,      \* ToJson: "idle", "run" (inside processNodeUids) or "done"
    nRoot,      \* toFastJSON: n, the _root_ output node
    rootIdx,    \* processNodeUids: the index i into sg.uidMatrix[0].Uids, from 1
    hasChild,   \* processNodeUids: hasChild
    frames,     \* the open preTraverse calls, outermost first
    ret,        \* what the preTraverse call that just returned handed to its caller
    parentIds,  \* sg.Params.parentIds of the SubGraph of every level
    resultErr   \* the error ToJson returned

nodeVars == <<stack, out, encoded>>
normVars == <<NormalizeNodeLimit, parentSlice, childSlice, sorted, normalized, normDone>>
travVars == <<sg, phase, nRoot, rootIdx, hasChild, frames, ret, parentIds, resultErr>>
vars == <<nodeVars, normVars, travVars>>
notNodeVars == <<normVars, travVars>>
notNormVars == <<out, encoded, travVars>>
notTravVars == <<stack, encoded, normVars>>

(***************************************************************************)
(* Bounds of the model.                                                    *)
(***************************************************************************)
MaxNodes == 4       \* nodes below the root that a built tree may hold
MaxDepth == 2       \* output nodes that may be under construction at once (dst, uc)
MaxRows == 3        \* rows of a row set handed to merge
MaxRowLen == 1      \* fields of a row handed to merge
LowLimit == 3       \* a small configured NormalizeNodeLimit
HighLimit == 12     \* a large configured NormalizeNodeLimit
MaxNormNodes == 5   \* nodes below the root of a tree handed to normalize
MaxUid == 2         \* uids of the graph that is queried: 1..MaxUid
MaxLevels == 3      \* levels of the query: the root block and the nested friend blocks
MaxEdges == 2       \* friend edges of the graph that is queried

(***************************************************************************)
(* Byte strings.                                                           *)
(***************************************************************************)
\* The bytes of a buffer: the concatenation of the writes made to it.
RECURSIVE Bytes(_)
Bytes(ws) == IF ws = <<>> THEN "" ELSE Head(ws) \o Bytes(Tail(ws))

HexDigit == <<"0", "1", "2", "3", "4", "5", "6", "7", "8", "9", "a", "b", "c", "d", "e", "f">>

\* fmt.Sprintf("%x", n)
RECURSIVE HexOf(_)
HexOf(n) == IF n < 16 THEN HexDigit[n + 1] ELSE HexOf(n \div 16) \o HexDigit[(n % 16) + 1]

\* fmt.Sprintf("\"%#x\"", uid)
UidBytes(uid) == "\"" \o "0x" \o HexOf(uid) \o "\""

(***************************************************************************)
(* types.Val and valToBytes.                                               *)
(***************************************************************************)
StringVal(s) == [Tid |-> "StringID", Str |-> s, Int |-> 0]
IntVal(n) == [Tid |-> "IntID", Str |-> "", Int |-> n]
\* A value whose type valToBytes has no case for.
UnsupportedVal == [Tid |-> "UndefinedID", Str |-> "", Int |-> 0]

valToBytes(v) ==
    CASE v.Tid \in {"StringID", "DefaultID"} -> [bs |-> "\"" \o v.Str \o "\"", err |-> ""]
      [] v.Tid = "IntID" -> [bs |-> ToString(v.Int), err |-> ""]
      [] v.Tid = "BoolID" -> [bs |-> IF v.Int # 0 THEN "true" ELSE "false", err |-> ""]
      [] v.Tid = "UidID" -> [bs |-> UidBytes(v.Int), err |-> ""]
      [] OTHER -> [bs |-> "", err |-> "Unsupported types.Val.Tid"]

(***************************************************************************)
(* fastJsonNode and the outputNode operations.                             *)
(***************************************************************************)
fastJsonNode(attr, isChild, scalarVal, list, attrs) ==
    [attr |-> attr, order |-> 0, isChild |-> isChild, scalarVal |-> scalarVal,
     attrs |-> attrs, list |-> list]

\* &fastJsonNode{}
EmptyNode == fastJsonNode("", FALSE, "", FALSE, <<>>)

makeScalarNode(attr, isChild, val, list) == fastJsonNode(attr, isChild, val, list, <<>>)

New(attr) == fastJsonNode(attr, FALSE, "", FALSE, <<>>)

IsEmpty(fj) == Len(fj.attrs) = 0

AddListValue(fj, attr, v, list) ==
    LET r == valToBytes(v)
    IN  IF r.err = ""
        THEN [fj EXCEPT !.attrs = Append(@, makeScalarNode(attr, FALSE, r.bs, list))]
        ELSE fj

AddValue(fj, attr, v) == AddListValue(fj, attr, v, FALSE)

\* Index of the first child named attr, 0 when there is none.
FirstNamed(attrs, attr) ==
    IF \E i \in 1..Len(attrs) : attrs[i].attr = attr
    THEN CHOOSE i \in 1..Len(attrs) :
            /\ attrs[i].attr = attr
            /\ \A j \in 1..(i - 1) : attrs[j].attr # attr
    ELSE 0

AddMapChild(fj, attr, val) ==
    LET c == FirstNamed(fj.attrs, attr)
    IN  IF c # 0
        THEN [fj EXCEPT !.attrs[c].attrs = @ \o val.attrs]
        ELSE [fj EXCEPT !.attrs = Append(@, [val EXCEPT !.isChild = FALSE, !.attr = attr])]

AddListChild(fj, attr, child) ==
    [fj EXCEPT !.attrs = Append(@, [child EXCEPT !.attr = attr, !.isChild = TRUE])]

\* SetUID putting the uid field in front of the fields already there.
SetUIDFirst(fj, uid, attr) ==
    IF attr = "uid" /\ \E i \in 1..Len(fj.attrs) : fj.attrs[i].attr = attr
    THEN fj
    ELSE [fj EXCEPT !.attrs = <<makeScalarNode(attr, FALSE, UidBytes(uid), FALSE)>> \o @]

SetUID(fj, uid, attr) ==
    IF attr = "uid" /\ \E i \in 1..Len(fj.attrs) : fj.attrs[i].attr = attr
    THEN fj
    ELSE [fj EXCEPT !.attrs = Append(@, makeScalarNode(attr, FALSE, UidBytes(uid), FALSE))]

(***************************************************************************)
(* The encoder.                                                            *)
(***************************************************************************)
writeKey(fj) == <<"\"", fj.attr, "\"", ":">>

RECURSIVE encode(_)
RECURSIVE encodeLoop(_, _, _, _, _)

\* The loop of encode with every group left open at its last member: the
\* count of the group is not reset when the name changes.
encodeLoopNoReset(attrs, i, cur, cnt, inArray) ==
    LET wrap == cur.isChild \/ cur.list
    IN  IF i <= Len(attrs)
        THEN LET next == attrs[i]
             IN  IF cur.attr = next.attr
                 THEN (IF cnt = 1 THEN writeKey(cur) \o <<"[">> ELSE <<>>)
                      \o encode(cur) \o <<",">>
                      \o encodeLoop(attrs, i + 1, next, cnt + 1, TRUE)
                 ELSE (IF cnt = 1
                       THEN writeKey(cur) \o (IF wrap THEN <<"[">> ELSE <<>>)
                       ELSE <<>>)
                      \o encode(cur)
                      \o (IF cnt # 1 \/ wrap THEN <<"]">> ELSE <<>>)
                      \o <<",">>
                      \o encodeLoop(attrs, i + 1, next, cnt, FALSE)
        ELSE (IF cnt = 1 THEN writeKey(cur) ELSE <<>>)
             \o (IF wrap /\ ~inArray THEN <<"[">> ELSE <<>>)
             \o encode(cur)
             \o (IF cnt # 1 \/ wrap THEN <<"]">> ELSE <<>>)

\* The loop of encode without the inArray test at the last child: a wrapped
\* last child opens an array even when its group already has one open.
encodeLoopNoInArray(attrs, i, cur, cnt, inArray) ==
    LET wrap == cur.isChild \/ cur.list
    IN  IF i <= Len(attrs)
        THEN LET next == attrs[i]
             IN  IF cur.attr = next.attr
                 THEN (IF cnt = 1 THEN writeKey(cur) \o <<"[">> ELSE <<>>)
                      \o encode(cur) \o <<",">>
                      \o encodeLoop(attrs, i + 1, next, cnt + 1,
                                    IF cnt = 1 THEN TRUE ELSE inArray)
                 ELSE (IF cnt = 1
                       THEN writeKey(cur) \o (IF wrap THEN <<"[">> ELSE <<>>)
                       ELSE <<>>)
                      \o encode(cur)
                      \o (IF cnt # 1 \/ wrap THEN <<"]">> ELSE <<>>)
                      \o <<",">>
                      \o encodeLoop(attrs, i + 1, next, 1,
                                    IF cnt # 1 \/ wrap THEN FALSE ELSE inArray)
        ELSE (IF cnt = 1 THEN writeKey(cur) ELSE <<>>)
             \o (IF wrap THEN <<"[">> ELSE <<>>)
             \o encode(cur)
             \o (IF cnt # 1 \/ wrap THEN <<"]">> ELSE <<>>)

\* One pass of the for loop of encode, entered with the next index i (from 1),
\* the pending child cur, the size cnt of its group so far and inArray; yields
\* the writes of this pass and of all later ones.
encodeLoop(attrs, i, cur, cnt, inArray) ==
    LET wrap == cur.isChild \/ cur.list
    IN  IF i <= Len(attrs)
        THEN LET next == attrs[i]
             IN  IF cur.attr = next.attr
                 THEN (IF cnt = 1 THEN writeKey(cur) \o <<"[">> ELSE <<>>)
                      \o encode(cur) \o <<",">>
                      \o encodeLoop(attrs, i + 1, next, cnt + 1,
                                    IF cnt = 1 THEN TRUE ELSE inArray)
                 ELSE (IF cnt = 1
                       THEN writeKey(cur) \o (IF wrap THEN <<"[">> ELSE <<>>)
                       ELSE <<>>)
                      \o encode(cur)
                      \o (IF cnt # 1 \/ wrap THEN <<"]">> ELSE <<>>)
                      \o <<",">>
                      \o encodeLoop(attrs, i + 1, next, 1,
                                    IF cnt # 1 \/ wrap THEN FALSE ELSE inArray)
        ELSE (IF cnt = 1 THEN writeKey(cur) ELSE <<>>)
             \o (IF wrap /\ ~inArray THEN <<"[">> ELSE <<>>)
             \o encode(cur)
             \o (IF cnt # 1 \/ wrap THEN <<"]">> ELSE <<>>)

\* The writes of fj.encode(out). A write of no bytes leaves the buffer as it is.
encode(fj) ==
    IF 0 < Len(fj.attrs)
    THEN <<"{">> \o encodeLoop(fj.attrs, 2, fj.attrs[1], 1, FALSE) \o <<"}">>
    ELSE IF fj.scalarVal = "" THEN <<>> ELSE <<fj.scalarVal>>

\* The relative ordering that encode leaves in the tree: order = index, from 0.
RECURSIVE setOrder(_)
setOrder(fj) ==
    [fj EXCEPT !.attrs = [i \in 1..Len(fj.attrs) |->
                            [setOrder(fj.attrs[i]) EXCEPT !.order = i - 1]]]

\* The tail of toFastJSON without its default: the root is always encoded.
toFastJSONWriteNoDefault(n) == encode(n)

\* The tail of toFastJSON: "{}" for a root without fields, else the root encoded.
toFastJSONWrite(n) == IF Len(n.attrs) = 0 THEN <<"{}">> ELSE encode(n)

(***************************************************************************)
(* Building a tree with the outputNode operations, then serialising it.    *)
(***************************************************************************)
NodeNames == {"a", "b"}
UidNames == {"uid", "a"}
NodeVals == {StringVal("x"), UnsupportedVal}
NodeUids == {1}

RECURSIVE Size(_)
RECURSIVE SizeSeq(_)
Size(fj) == 1 + SizeSeq(fj.attrs)
SizeSeq(s) == IF s = <<>> THEN 0 ELSE Size(Head(s)) + SizeSeq(Tail(s))

\* Nodes below the root over the whole construction stack.
Built == SizeSeq(stack) - 1

Top == stack[Len(stack)]
SetTop(fj) == [stack EXCEPT ![Len(stack)] = fj]

\* No preTraverse call has returned.
NoRet == [pending |-> FALSE, level |-> 0, uid |-> 0, err |-> "", dst |-> EmptyNode,
          entryIds |-> <<>>]

NoFault == [kind |-> "none", uid |-> 0, level |-> 0, err |-> ""]

\* ToJson is not running: an empty query on an empty graph.
TravIdle ==
    /\ sg = [depth |-> 1, rootUids |-> <<>>, friends |-> [u \in 1..MaxUid |-> <<>>],
             fault |-> NoFault, IgnoreReflex |-> FALSE, GetUid |-> FALSE, List |-> FALSE]
    /\ phase = "idle"
    /\ nRoot = New("_root_")
    /\ rootIdx = 1
    /\ hasChild = FALSE
    /\ frames = <<>>
    /\ ret = NoRet
    /\ parentIds = [l \in 1..MaxLevels |-> <<>>]
    /\ resultErr = ""

NormIdle ==
    /\ NormalizeNodeLimit = HighLimit
    /\ parentSlice = <<>>
    /\ childSlice = <<>>
    /\ sorted = <<>>
    /\ normalized = [rows |-> <<>>, err |-> ""]
    /\ normDone = ""

NodeInit ==
    /\ stack = <<New("_root_")>>
    /\ out = <<>>
    /\ encoded = FALSE
    /\ NormIdle
    /\ TravIdle

DoNew ==
    /\ ~encoded /\ Len(stack) < MaxDepth /\ Built < MaxNodes
    /\ \E attr \in NodeNames : stack' = Append(stack, New(attr))
    /\ UNCHANGED <<out, encoded, notNodeVars>>

DoAddValue ==
    /\ ~encoded /\ Built < MaxNodes
    /\ \E attr \in NodeNames, v \in NodeVals : stack' = SetTop(AddValue(Top, attr, v))
    /\ UNCHANGED <<out, encoded, notNodeVars>>

DoAddListValue ==
    /\ ~encoded /\ Built < MaxNodes
    /\ \E attr \in NodeNames, v \in NodeVals, list \in BOOLEAN :
          stack' = SetTop(AddListValue(Top, attr, v, list))
    /\ UNCHANGED <<out, encoded, notNodeVars>>

DoSetUID ==
    /\ ~encoded /\ Built < MaxNodes
    /\ \E uid \in NodeUids, attr \in UidNames : stack' = SetTop(SetUID(Top, uid, attr))
    /\ UNCHANGED <<out, encoded, notNodeVars>>

DoAddMapChild ==
    /\ ~encoded /\ Len(stack) > 1
    /\ \E attr \in NodeNames :
          stack' = [SubSeq(stack, 1, Len(stack) - 1) EXCEPT
                       ![Len(stack) - 1] = AddMapChild(@, attr, Top)]
    /\ UNCHANGED <<out, encoded, notNodeVars>>

DoAddListChild ==
    /\ ~encoded /\ Len(stack) > 1
    /\ \E attr \in NodeNames :
          stack' = [SubSeq(stack, 1, Len(stack) - 1) EXCEPT
                       ![Len(stack) - 1] = AddListChild(@, attr, Top)]
    /\ UNCHANGED <<out, encoded, notNodeVars>>

DoEncode ==
    /\ ~encoded /\ Len(stack) = 1
    /\ out' = toFastJSONWrite(stack[1])
    /\ stack' = <<setOrder(stack[1])>>
    /\ encoded' = TRUE
    /\ UNCHANGED notNodeVars

NodeNext ==
    \/ DoNew
    \/ DoAddValue
    \/ DoAddListValue
    \/ DoSetUID
    \/ DoAddMapChild
    \/ DoAddListChild
    \/ DoEncode

SpecNode == NodeInit /\ [][NodeNext]_vars

(***************************************************************************)
(* Properties of the output node and the encoder.                          *)
(***************************************************************************)
Root == stack[1]

\* A node and everything below it.
RECURSIVE Nodes(_)
Nodes(fj) == {fj} \cup UNION {Nodes(fj.attrs[i]) : i \in 1..Len(fj.attrs)}

Below(fj) == UNION {Nodes(fj.attrs[i]) : i \in 1..Len(fj.attrs)}

Wrapped(c) == c.isChild \/ c.list

\* The bytes written for one child.
Enc(c) == Bytes(encode(c))

\* The bytes of a child's key.
Key(c) == "\"" \o c.attr \o "\":"

\* The root has been serialised and its children are named [x, x, y, x], x # y.
AABA ==
    /\ encoded
    /\ Len(Root.attrs) = 4
    /\ Root.attrs[1].attr = Root.attrs[2].attr
    /\ Root.attrs[1].attr = Root.attrs[4].attr
    /\ Root.attrs[1].attr # Root.attrs[3].attr

\* C1 as stated: for children named [a, a, b, a], whatever their flags, the
\* output is {"a":[c1,c2],"b":c3,"a":[c4]}: b bare, the trailing a in an array.
C1_Original ==
    AABA =>
        Bytes(out) = "{" \o Key(Root.attrs[1]) \o "[" \o Enc(Root.attrs[1]) \o ","
                         \o Enc(Root.attrs[2]) \o "],"
                         \o Key(Root.attrs[3]) \o Enc(Root.attrs[3]) \o ","
                         \o Key(Root.attrs[4]) \o "[" \o Enc(Root.attrs[4]) \o "]}"

\* The value written for a child that is alone in its group: in a one-element
\* array when it is structural or list-tagged, bare otherwise.
Lone(c) == IF Wrapped(c) THEN "[" \o Enc(c) \o "]" ELSE Enc(c)

\* C1, amended: for children named [a, a, b, a] the first two a's are written
\* as one array under one key, whatever their flags; b and the trailing a each
\* get a key of their own and are written as a one-element array exactly when
\* they are structural (isChild) or list-tagged, and bare when plain scalars.
C1_Grouping ==
    AABA =>
        Bytes(out) = "{" \o Key(Root.attrs[1]) \o "[" \o Enc(Root.attrs[1]) \o ","
                         \o Enc(Root.attrs[2]) \o "],"
                         \o Key(Root.attrs[3]) \o Lone(Root.attrs[3]) \o ","
                         \o Key(Root.attrs[4]) \o Lone(Root.attrs[4]) \o "}"

\* Four plain scalar leaves named [a, a, b, a] have been serialised.
C1_Witness ==
    /\ AABA
    /\ \A i \in 1..4 : ~Wrapped(Root.attrs[i]) /\ Root.attrs[i].scalarVal # ""

\* C2 as stated: every node with zero children, the root or a nested one, is
\* empty and is encoded as {}.
C2_Original ==
    encoded =>
        /\ (Len(Root.attrs) = 0 => IsEmpty(Root) /\ Bytes(out) = "{}")
        /\ \A n \in Below(Root) : Len(n.attrs) = 0 => IsEmpty(n) /\ Enc(n) = "{}"

\* C2, amended: every node with zero children is empty; a root with zero
\* children is serialised as {}; a nested node with zero children is written
\* as its scalar bytes and nothing else, so a nested node without fields
\* contributes no bytes: alone under key k it gives {"k":[]} when structural.
C2_Empty ==
    encoded =>
        /\ (Len(Root.attrs) = 0 => IsEmpty(Root) /\ Bytes(out) = "{}")
        /\ \A n \in Below(Root) : Len(n.attrs) = 0 => IsEmpty(n) /\ Enc(n) = n.scalarVal
        /\ (/\ Len(Root.attrs) = 1
            /\ Len(Root.attrs[1].attrs) = 0
            /\ Root.attrs[1].scalarVal = "")
           => Bytes(out) = "{" \o Key(Root.attrs[1])
                               \o (IF Wrapped(Root.attrs[1]) THEN "[]" ELSE "") \o "}"

\* A tree whose only field is a nested node without fields has been serialised.
C2_Witness ==
    /\ encoded
    /\ Len(Root.attrs) = 1
    /\ Len(Root.attrs[1].attrs) = 0
    /\ Root.attrs[1].scalarVal = ""
    /\ Root.attrs[1].isChild
    /\ Bytes(out) = "{\"a\":[]}"

\* C10: no node of a tree under construction holds both scalar bytes and
\* children.
C10_LeafOrInternal ==
    \A k \in 1..Len(stack) : \A n \in Nodes(stack[k]) :
        ~(n.scalarVal # "" /\ Len(n.attrs) > 0)

(***************************************************************************)
(* merge and normalize.                                                    *)
(***************************************************************************)
TooManyResults == "Couldn't evaluate @normalize directive - too many results"

\* The nested loops of merge, at parent row p and child row c (from 1), with
\* the running count cnt and the rows merged so far.
RECURSIVE mergeLoop(_, _, _, _, _, _)
mergeLoop(parent, child, p, c, cnt, mergedList) ==
    IF p > Len(parent) THEN [rows |-> mergedList, err |-> ""]
    ELSE IF c > Len(child) THEN mergeLoop(parent, child, p + 1, 1, cnt, mergedList)
    ELSE LET cnt2 == cnt + Len(parent[p]) + Len(child[c])
         IN  IF cnt2 > NormalizeNodeLimit
             THEN [rows |-> <<>>, err |-> TooManyResults]
             ELSE mergeLoop(parent, child, p, c + 1, cnt2,
                            Append(mergedList, parent[p] \o child[c]))

\* merge with its two loops swapped: child rows outermost.
mergeChildMajor(parent, child) ==
    IF Len(parent) = 0 THEN [rows |-> child, err |-> ""]
    ELSE LET r == mergeLoop(child, parent, 1, 1, 0, <<>>)
         IN  IF r.err # "" THEN r
             ELSE [rows |-> [k \in 1..Len(r.rows) |->
                               parent[((k - 1) % Len(parent)) + 1]
                               \o child[((k - 1) \div Len(parent)) + 1]],
                   err |-> ""]

\* merge whose count is taken per row instead of being cumulative.
mergePerRowCount(parent, child) ==
    IF Len(parent) = 0 THEN [rows |-> child, err |-> ""]
    ELSE IF \E p \in 1..Len(parent), c \in 1..Len(child) :
                Len(parent[p]) + Len(child[c]) > NormalizeNodeLimit
         THEN [rows |-> <<>>, err |-> TooManyResults]
         ELSE [rows |-> [k \in 1..(Len(parent) * Len(child)) |->
                            parent[((k - 1) \div Len(child)) + 1]
                            \o child[((k - 1) % Len(child)) + 1]],
               err |-> ""]

merge(parent, child) ==
    IF Len(parent) = 0 THEN [rows |-> child, err |-> ""]
    ELSE mergeLoop(parent, child, 1, 1, 0, <<>>)

\* strings.Compare on the field names of the model, which are listed in byte order.
AttrOrder == <<"", "_root_", "a", "b", "f", "friend", "g", "name", "people", "uid">>
AttrRank(a) == CHOOSE i \in 1..Len(AttrOrder) : AttrOrder[i] = a
Compare(a, b) == IF a = b THEN 0 ELSE IF AttrRank(a) < AttrRank(b) THEN -1 ELSE 1

\* nodeSlice.Less on two nodes.
Less(x, y) ==
    LET cmp == Compare(x.attr, y.attr)
    IN  IF cmp = 0 THEN x.order < y.order ELSE cmp < 0

\* s with x put in after its first k members.
InsertAt(s, k, x) == SubSeq(s, 1, k) \o <<x>> \o SubSeq(s, k + 1, Len(s))

\* sort.Sort(nodeSlice(slice)): the sort is not stable, so the result is any
\* arrangement of the row in which no member is Less than one before it.
RECURSIVE sortSort(_)
sortSort(slice) ==
    IF slice = <<>> THEN {<<>>}
    ELSE LET x == Head(slice)
         IN  UNION {{InsertAt(s, k, x) :
                        k \in {k \in 0..Len(s) :
                                 /\ \A j \in 1..k : ~Less(x, s[j])
                                 /\ \A j \in (k + 1)..Len(s) : ~Less(s[j], x)}} :
                    s \in sortSort(Tail(slice))}

Min(S) == CHOOSE x \in S : \A y \in S : x <= y
Max(S) == CHOOSE x \in S : \A y \in S : x >= y

\* The uid pass over a sorted row, keeping the first uid field instead of the last.
dropUidsKeepFirst(slice) ==
    LET at == {i \in 1..Len(slice) : slice[i].attr = "uid"}
    IN  IF at = {} \/ Min(at) = Max(at) THEN slice
        ELSE SubSeq(slice, 1, Min(at)) \o SubSeq(slice, Max(at) + 1, Len(slice))

\* Lines 348-364: first and last are the first and last field named "uid";
\* when they differ the row becomes slice[:first] followed by slice[last:].
dropUids(slice) ==
    LET at == {i \in 1..Len(slice) : slice[i].attr = "uid"}
    IN  IF at = {} \/ Min(at) = Max(at) THEN slice
        ELSE IF Min(at) = 1 THEN SubSeq(slice, Max(at), Len(slice))
        ELSE SubSeq(slice, 1, Min(at) - 1) \o SubSeq(slice, Max(at), Len(slice))

\* Every way sort.Sort may arrange each row of a row set.
RECURSIVE sortRows(_)
sortRows(rows) ==
    IF rows = <<>> THEN {<<>>}
    ELSE {<<s>> \o rest : s \in sortSort(Head(rows)), rest \in sortRows(Tail(rows))}

NumChildren(fj) == Cardinality({i \in 1..Len(fj.attrs) : fj.attrs[i].isChild})

\* The non-child fields of fj, in order.
RECURSIVE ownAttrs(_)
ownAttrs(attrs) ==
    IF attrs = <<>> THEN <<>>
    ELSE IF ~Head(attrs).isChild THEN <<Head(attrs)>> \o ownAttrs(Tail(attrs))
    ELSE ownAttrs(Tail(attrs))

\* One past the last index of the run of fields named like attrs[ci].
RECURSIVE groupEnd(_, _, _)
groupEnd(attrs, ci, attr) ==
    IF ci <= Len(attrs) /\ attrs[ci].attr = attr THEN groupEnd(attrs, ci + 1, attr) ELSE ci

RECURSIVE normalize(_)
RECURSIVE normalizeGroup(_, _, _, _)
RECURSIVE normalizeFrom(_, _, _)

\* The inner loop of lines 330-337 over fj.attrs[ci..e-1]: the possible childSlices.
normalizeGroup(fj, ci, e, slice) ==
    IF ci >= e THEN {[rows |-> slice, err |-> ""]}
    ELSE UNION {IF r.err # "" THEN {r}
                ELSE normalizeGroup(fj, ci + 1, e, slice \o r.rows) :
                r \in normalize(fj.attrs[ci])}

\* The loop of lines 323-344 from index ci (from 1) with the rows merged so far.
normalizeFrom(fj, ci, rows) ==
    IF ci > Len(fj.attrs) THEN {[rows |-> rows, err |-> ""]}
    ELSE IF ~fj.attrs[ci].isChild THEN normalizeFrom(fj, ci + 1, rows)
    ELSE LET e == groupEnd(fj.attrs, ci, fj.attrs[ci].attr)
         IN  UNION {IF g.err # "" THEN {g}
                    ELSE LET m == merge(rows, g.rows)
                         IN  IF m.err # "" THEN {m} ELSE normalizeFrom(fj, e, m.rows) :
                    g \in normalizeGroup(fj, ci, e, <<>>)}

\* What normalize may hand to its last loop: parentSlice with every row sorted, or an error.
normalizeSorted(fj) ==
    UNION {IF m.err # "" THEN {m}
           ELSE {[rows |-> s, err |-> ""] : s \in sortRows(m.rows)} :
           m \in normalizeFrom(fj, 1, <<ownAttrs(fj.attrs)>>)}

dropAll(rows) == [i \in 1..Len(rows) |-> dropUids(rows[i])]

\* The possible results of fj.normalize().
normalize(fj) ==
    IF NumChildren(fj) = 0 THEN {[rows |-> <<fj.attrs>>, err |-> ""]}
    ELSE {IF m.err # "" THEN m ELSE [rows |-> dropAll(m.rows), err |-> ""] :
          m \in normalizeSorted(fj)}

(***************************************************************************)
(* merge applied to drawn row sets, and normalize applied to built trees.  *)
(***************************************************************************)
NormLeafNames == {"name", "f"}
NormChildNames == {"f", "g"}

\* The rows of at most MaxRowLen fields, all copies of leaf.
RowsOf(leaf) == {[i \in 1..n |-> leaf] : n \in 0..MaxRowLen}

\* The row sets of at most MaxRows such rows.
RowSetsOf(leaf) == UNION {[1..n -> RowsOf(leaf)] : n \in 0..MaxRows}

ParentLeaf == makeScalarNode("name", FALSE, "\"p\"", FALSE)
ChildLeaf == makeScalarNode("name", FALSE, "\"c\"", FALSE)

NodeIdle ==
    /\ stack = <<New("_root_")>>
    /\ out = <<>>
    /\ encoded = FALSE

NormInit ==
    /\ NodeIdle
    /\ TravIdle
    /\ NormalizeNodeLimit \in {LowLimit, HighLimit}
    /\ sorted = <<>>
    /\ normalized = [rows |-> <<>>, err |-> ""]
    /\ \/ /\ normDone = "args"
          /\ parentSlice \in RowSetsOf(ParentLeaf)
          /\ childSlice \in RowSetsOf(ChildLeaf)
       \/ /\ normDone = ""
          /\ parentSlice = <<>>
          /\ childSlice = <<>>

normFrame == <<NormalizeNodeLimit, parentSlice, childSlice, sorted, normalized, normDone>>

DoMerge ==
    /\ normDone = "args"
    /\ normalized' = merge(parentSlice, childSlice)
    /\ normDone' = "merge"
    /\ UNCHANGED <<NormalizeNodeLimit, parentSlice, childSlice, sorted, stack, notNormVars>>

NormNew ==
    /\ normDone = "" /\ Len(stack) < MaxDepth /\ Built < MaxNormNodes
    /\ \E attr \in NormChildNames : stack' = Append(stack, New(attr))
    /\ UNCHANGED <<normFrame, notNormVars>>

NormAddValue ==
    /\ normDone = "" /\ Built < MaxNormNodes
    /\ \E attr \in NormLeafNames : stack' = SetTop(AddValue(Top, attr, StringVal("x")))
    /\ UNCHANGED <<normFrame, notNormVars>>

NormSetUID ==
    /\ normDone = "" /\ Built < MaxNormNodes
    /\ stack' = SetTop(SetUID(Top, Built + 1, "uid"))
    /\ UNCHANGED <<normFrame, notNormVars>>

NormAddListChild ==
    /\ normDone = "" /\ Len(stack) > 1
    /\ \E attr \in NormChildNames :
          stack' = [SubSeq(stack, 1, Len(stack) - 1) EXCEPT
                       ![Len(stack) - 1] = AddListChild(@, attr, Top)]
    /\ UNCHANGED <<normFrame, notNormVars>>

\* n1.normalize() on the finished tree.
DoNormalize ==
    /\ normDone = "" /\ Len(stack) = 1
    /\ IF NumChildren(stack[1]) = 0
       THEN /\ sorted' = <<>>
            /\ normalized' \in normalize(stack[1])
       ELSE \E m \in normalizeSorted(stack[1]) :
               /\ sorted' = m.rows
               /\ normalized' = IF m.err # "" THEN m
                                ELSE [rows |-> dropAll(m.rows), err |-> ""]
    /\ normDone' = "normalize"
    /\ UNCHANGED <<NormalizeNodeLimit, parentSlice, childSlice, stack, notNormVars>>

NormNext ==
    \/ DoMerge
    \/ NormNew
    \/ NormAddValue
    \/ NormSetUID
    \/ NormAddListChild
    \/ DoNormalize

SpecNorm == NormInit /\ [][NormNext]_vars

(***************************************************************************)
(* Properties of merge and normalize.                                      *)
(***************************************************************************)
RECURSIVE Total(_)
Total(rows) == IF rows = <<>> THEN 0 ELSE Len(Head(rows)) + Total(Tail(rows))

\* The members of s at the positions in P, in order.
RECURSIVE KeepAt(_, _, _)
KeepAt(s, P, i) ==
    IF i > Len(s) THEN <<>>
    ELSE (IF i \in P THEN <<s[i]>> ELSE <<>>) \o KeepAt(s, P, i + 1)

UidAt(row) == {i \in 1..Len(row) : row[i].attr = "uid"}
NotUidAt(row) == {i \in 1..Len(row) : row[i].attr # "uid"}

\* normalize has returned rows for a tree with structural children.
Flattened ==
    /\ normDone = "normalize"
    /\ normalized.err = ""
    /\ NumChildren(stack[1]) > 0

\* C3 as stated: of several uid fields in a sorted merged row exactly the
\* earliest-positioned one survives.
C3_Original ==
    Flattened =>
        \A i \in 1..Len(sorted) :
            UidAt(sorted[i]) # {} =>
                normalized.rows[i] =
                    KeepAt(sorted[i], NotUidAt(sorted[i]) \cup {Min(UidAt(sorted[i]))}, 1)

\* C3, amended: of several uid fields in a sorted merged row exactly the
\* last-positioned one survives and all earlier ones are dropped, so no row
\* returned for a node with structural children has more than one uid field.
C3_LastUidSurvives ==
    Flattened =>
        /\ Len(normalized.rows) = Len(sorted)
        /\ \A i \in 1..Len(sorted) :
            /\ Cardinality(UidAt(normalized.rows[i])) <= 1
            /\ UidAt(sorted[i]) # {} =>
                normalized.rows[i] =
                    KeepAt(sorted[i], NotUidAt(sorted[i]) \cup {Max(UidAt(sorted[i]))}, 1)
            /\ UidAt(sorted[i]) = {} => normalized.rows[i] = sorted[i]

\* A sorted merged row held a field before its first uid field and two uid
\* fields, and normalize returned.
C3_Witness ==
    /\ Flattened
    /\ \E i \in 1..Len(sorted) :
          /\ Cardinality(UidAt(sorted[i])) >= 2
          /\ Min(UidAt(sorted[i])) > 1
          /\ sorted[i][Min(UidAt(sorted[i]))] # sorted[i][Max(UidAt(sorted[i]))]

\* Row k (from 1) of the parent-major cross product of two row sets.
CrossRow(parent, child, k) ==
    parent[((k - 1) \div Len(child)) + 1] \o child[((k - 1) % Len(child)) + 1]

IsCross(rows, parent, child) ==
    /\ Len(rows) = Len(parent) * Len(child)
    /\ \A k \in 1..Len(rows) : rows[k] = CrossRow(parent, child, k)

\* The number of rows a tree flattens to: one for a node without structural
\* children, else the product over its groups of the rows of the group's members.
RECURSIVE RowCount(_)
RECURSIVE GroupRows(_, _, _)
RECURSIVE GroupsProduct(_, _)
GroupRows(attrs, ci, e) ==
    IF ci >= e THEN 0 ELSE RowCount(attrs[ci]) + GroupRows(attrs, ci + 1, e)
GroupsProduct(attrs, ci) ==
    IF ci > Len(attrs) THEN 1
    ELSE IF ~attrs[ci].isChild THEN GroupsProduct(attrs, ci + 1)
    ELSE LET e == groupEnd(attrs, ci, attrs[ci].attr)
         IN  GroupRows(attrs, ci, e) * GroupsProduct(attrs, e)
RowCount(fj) == IF NumChildren(fj) = 0 THEN 1 ELSE GroupsProduct(fj.attrs, 1)

\* C4 as stated: for every M >= 0 and N >= 0 a merge that stays under the
\* limit returns the M*N rows of the parent-major cross product.
C4_Original ==
    (normDone = "merge" /\ normalized.err = "") =>
        IsCross(normalized.rows, parentSlice, childSlice)

\* C4, amended: for every M >= 1 and N >= 0 a merge that stays under the limit
\* returns exactly M*N rows, each one parent row followed by one child row, in
\* parent-major order; with M = 0 it returns the N child rows unchanged. Hence a
\* successful normalize returns the product of its groups' row counts: 6 rows
\* for two groups of 2 and 3 rows.
C4_CrossProduct ==
    /\ (normDone = "merge" /\ normalized.err = "") =>
          IF Len(parentSlice) = 0
          THEN normalized.rows = childSlice
          ELSE IsCross(normalized.rows, parentSlice, childSlice)
    /\ (normDone = "normalize" /\ normalized.err = "") =>
          Len(normalized.rows) = RowCount(stack[1])

\* A node with five structural children named [f, f, g, g, g], each without
\* structural children of its own, was normalized into 6 rows.
C4_Witness ==
    /\ Flattened
    /\ Len(stack[1].attrs) = 5
    /\ \A i \in 1..5 : stack[1].attrs[i].isChild /\ NumChildren(stack[1].attrs[i]) = 0
    /\ [i \in 1..5 |-> stack[1].attrs[i].attr] = <<"f", "f", "g", "g", "g">>
    /\ Len(normalized.rows) = 6

\* The element count of the full cross product of two row sets.
CrossTotal(parent, child) == Len(child) * Total(parent) + Len(parent) * Total(child)

\* C5 as stated: every successful merge and every successful normalize returns
\* rows whose total element count is at most NormalizeNodeLimit.
C5_Original ==
    (normDone \in {"merge", "normalize"} /\ normalized.err = "") =>
        Total(normalized.rows) <= NormalizeNodeLimit

\* C5, amended: a merge with a non-empty parent set fails with the "too many
\* results" error and returns no rows exactly when the element count of the
\* cross product exceeds NormalizeNodeLimit; the count restarts at every merge.
\* Every failure of normalize is that error with no rows, and every successful
\* normalize of a node that has structural children returns rows whose total
\* element count is at most the ceiling. A merge with an empty parent set and a
\* normalize of a node without structural children return their input unchecked.
C5_Ceiling ==
    /\ (normDone = "merge" /\ Len(parentSlice) > 0) =>
          /\ normalized.err # "" <=> CrossTotal(parentSlice, childSlice) > NormalizeNodeLimit
          /\ normalized.err # "" => normalized.err = TooManyResults /\ normalized.rows = <<>>
          /\ normalized.err = "" => Total(normalized.rows) <= NormalizeNodeLimit
    /\ (normDone = "merge" /\ Len(parentSlice) = 0) =>
          normalized = [rows |-> childSlice, err |-> ""]
    /\ normDone = "normalize" =>
          /\ normalized.err # "" => normalized.err = TooManyResults /\ normalized.rows = <<>>
          /\ (normalized.err = "" /\ NumChildren(stack[1]) > 0) =>
                Total(normalized.rows) <= NormalizeNodeLimit
          /\ NumChildren(stack[1]) = 0 =>
                normalized = [rows |-> <<stack[1].attrs>>, err |-> ""]

\* normalize of a tree with structural children failed on the ceiling.
C5_Witness ==
    /\ normDone = "normalize"
    /\ NumChildren(stack[1]) > 0
    /\ normalized.err = TooManyResults
    /\ normalized.rows = <<>>

(***************************************************************************)
(* ToJson, processNodeUids and preTraverse.                                *)
(*                                                                         *)
(* The query is a chain of blocks: people { name friend { name friend {    *)
(* name } } }, sg.depth levels deep, over a graph of uids 1..MaxUid with   *)
(* the friend edges sg.friends. The SubGraph of level 1 is the root block  *)
(* (alias "people", uidMatrix[0].Uids = sg.rootUids, all of them in        *)
(* DestUIDs); the SubGraph of level l > 1 is the friend predicate of level *)
(* l - 1. The children of every level are the scalar predicate name and,   *)
(* above the last level, the friend predicate of the next level.           *)
(* Params.Normalize is off; there are no facets, counts, group-bys,        *)
(* language tags, variables or path weights, except the one fault below.   *)
(***************************************************************************)
Uids == 1..MaxUid

PersonNames == <<"Alice", "Bob", "Carol", "Dave">>

FacetsMismatch == "Length of facetsMatrix and uidMatrix mismatch"
ConvertError == "error interpreting appropriate type for name"

\* The one thing wrong with the results, if any: a uid without a name value, a
\* uid whose name value convertWithBestEffort rejects with the error err, or a
\* level whose friend predicate has a facetsMatrix shorter than its uidMatrix.
Faults(depth) ==
    {NoFault}
    \cup {[kind |-> "noname", uid |-> u, level |-> 0, err |-> ""] : u \in Uids}
    \cup {[kind |-> "conv", uid |-> u, level |-> 0, err |-> e] :
             u \in Uids, e \in {"_INV_", ConvertError}}
    \cup {[kind |-> "facets", uid |-> 0, level |-> l, err |-> FacetsMismatch] : l \in 2..depth}

\* The sorted uid lists over Uids.
RECURSIVE SortedLists(_)
SortedLists(k) ==
    IF k = 0 THEN {<<>>}
    ELSE SortedLists(k - 1) \cup {Append(l, k) : l \in SortedLists(k - 1)}

RECURSIVE Edges(_, _)
Edges(f, u) == IF u = 0 THEN 0 ELSE Len(f[u]) + Edges(f, u - 1)

Graphs == {f \in [Uids -> SortedLists(MaxUid)] : Edges(f, MaxUid) <= MaxEdges}

Queries ==
    {[depth |-> d, rootUids |-> r, friends |-> f, fault |-> x,
      IgnoreReflex |-> ir, GetUid |-> gu, List |-> li] :
        d \in {MaxLevels}, r \in {<<u>> : u \in Uids} \cup {[i \in 1..MaxUid |-> i]},
        f \in Graphs, x \in Faults(MaxLevels), ir \in BOOLEAN, gu \in BOOLEAN, li \in BOOLEAN}
    \cup
    {[depth |-> 1, rootUids |-> r, friends |-> [u \in Uids |-> <<>>], fault |-> x,
      IgnoreReflex |-> ir, GetUid |-> gu, List |-> li] :
        r \in {<<u>> : u \in Uids} \cup {[i \in 1..MaxUid |-> i]},
        x \in Faults(1), ir \in BOOLEAN, gu \in BOOLEAN, li \in BOOLEAN}

\* convertWithBestEffort on the name value of uid: the value, or an error.
convertWithBestEffort(uid) ==
    IF sg.fault.kind = "conv" /\ sg.fault.uid = uid
    THEN [sv |-> UnsupportedVal, err |-> sg.fault.err]
    ELSE [sv |-> StringVal(PersonNames[uid]), err |-> ""]

\* pc.valueMatrix[idx].Values of the name predicate for uid.
nameValues(uid) ==
    IF sg.fault.kind = "noname" /\ sg.fault.uid = uid THEN <<>> ELSE <<uid>>

\* alreadySeen limited to the direct parent.
alreadySeenParentOnly(ids, uid) == Len(ids) > 0 /\ ids[Len(ids)] = uid

alreadySeen(ids, uid) == \E i \in 1..Len(ids) : ids[i] = uid

\* The comparison never recognises the signal.
isPrunedNever(err) == FALSE

\* err.Error() == "_INV_"
isPruned(err) == err = "_INV_"

TopFrame == frames[Len(frames)]
Pop(s) == SubSeq(s, 1, Len(s) - 1)
SetFrame(f) == [frames EXCEPT ![Len(frames)] = f]

\* The children of a level after name: friend above the last level.
AfterName(level) == IF level < sg.depth THEN "friend" ELSE "end"

\* Lines 605-613, entered by a call of the level's preTraverse(uid, dst): under
\* IgnoreReflex a uid on the stack returns nil at once, else the uid is pushed
\* and the call goes on to the children.
Enter(level, uid, dst) ==
    IF sg.IgnoreReflex /\ alreadySeen(parentIds[level], uid)
    THEN /\ ret' = [pending |-> TRUE, level |-> level, uid |-> uid, err |-> "",
                    dst |-> dst, entryIds |-> parentIds[level]]
         /\ UNCHANGED <<frames, parentIds>>
    ELSE /\ frames' = Append(IF frames = <<>> THEN <<>> ELSE frames,
                             [level |-> level, uid |-> uid, dst |-> dst, pci |-> "name",
                              childIdx |-> 1, invalidUids |-> {},
                              entryIds |-> parentIds[level]])
         /\ parentIds' = IF sg.IgnoreReflex
                         THEN [parentIds EXCEPT ![level] = Append(@, uid)]
                         ELSE parentIds
         /\ ret' = NoRet

\* A return with an error from inside the loop over the children: the open
\* call ends there, without the code that follows the loop.
ReturnErr(err) ==
    /\ ret' = [pending |-> TRUE, level |-> TopFrame.level, uid |-> TopFrame.uid,
               err |-> err, dst |-> TopFrame.dst, entryIds |-> TopFrame.entryIds]
    /\ frames' = Pop(frames)
    /\ UNCHANGED parentIds

TravInit ==
    /\ NodeIdle
    /\ NormIdle
    /\ sg \in Queries
    /\ phase = "run"
    /\ nRoot = New("_root_")
    /\ rootIdx = 1
    /\ hasChild = FALSE
    /\ frames = <<>>
    /\ ret = NoRet
    /\ parentIds = [l \in 1..MaxLevels |-> <<>>]
    /\ resultErr = ""

\* processNodeUids, lines 452-460: the next uid of the root block is visited.
CallRoot ==
    /\ phase = "run" /\ frames = <<>> /\ ~ret.pending
    /\ rootIdx <= Len(sg.rootUids)
    /\ Enter(1, sg.rootUids[rootIdx], New("people"))
    /\ UNCHANGED <<sg, phase, nRoot, rootIdx, hasChild, resultErr, out, notTravVars>>

\* preTraverse, lines 729-787 for the name predicate: its values are converted
\* and added; a conversion error is returned.
StepName ==
    /\ frames # <<>> /\ ~ret.pending /\ TopFrame.pci = "name"
    /\ LET f == TopFrame
           c == convertWithBestEffort(f.uid)
       IN  IF nameValues(f.uid) = <<>>
           THEN /\ frames' = SetFrame([f EXCEPT !.pci = AfterName(f.level)])
                /\ UNCHANGED <<ret, parentIds>>
           ELSE IF c.err # ""
           THEN ReturnErr(c.err)
           ELSE /\ frames' = SetFrame([f EXCEPT !.pci = AfterName(f.level),
                                                !.dst = AddListValue(@, "name", c.sv, FALSE)])
                /\ UNCHANGED <<ret, parentIds>>
    /\ UNCHANGED <<sg, phase, nRoot, rootIdx, hasChild, resultErr, out, notTravVars>>

\* preTraverse, lines 634-674 for the friend predicate pc of the next level:
\* the facets check, then either no destination uids (nothing to add) or the
\* start of the loop over them, with pc's stack set to this level's.
StepFriend ==
    /\ frames # <<>> /\ ~ret.pending /\ TopFrame.pci = "friend"
    /\ LET f == TopFrame
       IN  IF sg.fault.kind = "facets" /\ sg.fault.level = f.level + 1
           THEN ReturnErr(sg.fault.err)
           ELSE IF Len(sg.friends[f.uid]) = 0
           THEN /\ frames' = SetFrame([f EXCEPT !.pci = "end"])
                /\ UNCHANGED <<ret, parentIds>>
           ELSE /\ frames' = SetFrame([f EXCEPT !.pci = "uids", !.childIdx = 1])
                /\ parentIds' = IF sg.IgnoreReflex
                                THEN [parentIds EXCEPT ![f.level + 1] = parentIds[f.level]]
                                ELSE parentIds
                /\ UNCHANGED ret
    /\ UNCHANGED <<sg, phase, nRoot, rootIdx, hasChild, resultErr, out, notTravVars>>

\* preTraverse, lines 675-680: the next destination uid is skipped when it is
\* known to be invalid, else pc.preTraverse(childUID, uc) is called on a new node.
CallChild ==
    /\ frames # <<>> /\ ~ret.pending /\ TopFrame.pci = "uids"
    /\ TopFrame.childIdx <= Len(sg.friends[TopFrame.uid])
    /\ LET f == TopFrame
           childUID == sg.friends[f.uid][f.childIdx]
       IN  IF childUID \in f.invalidUids
           THEN /\ frames' = SetFrame([f EXCEPT !.childIdx = @ + 1])
                /\ UNCHANGED <<ret, parentIds>>
           ELSE Enter(f.level + 1, childUID, New("friend"))
    /\ UNCHANGED <<sg, phase, nRoot, rootIdx, hasChild, resultErr, out, notTravVars>>

\* preTraverse, lines 680-715: what the caller does with the child call's result.
HandleReturn ==
    /\ frames # <<>> /\ ret.pending
    /\ LET f == TopFrame
           childUID == sg.friends[f.uid][f.childIdx]
           uc == IF sg.GetUid THEN SetUID(ret.dst, childUID, "uid") ELSE ret.dst
       IN  IF ret.err # ""
           THEN IF isPruned(ret.err)
                THEN /\ frames' = SetFrame([f EXCEPT !.invalidUids = @ \cup {childUID},
                                                     !.childIdx = @ + 1])
                     /\ ret' = NoRet
                     /\ UNCHANGED parentIds
                ELSE ReturnErr(ret.err)
           ELSE /\ frames' = SetFrame(
                       [f EXCEPT !.childIdx = @ + 1,
                                 !.dst = IF IsEmpty(ret.dst) THEN @
                                         ELSE IF sg.List THEN AddListChild(@, "friend", uc)
                                         ELSE AddMapChild(@, "friend", uc)])
                /\ ret' = NoRet
                /\ UNCHANGED parentIds
    /\ UNCHANGED <<sg, phase, nRoot, rootIdx, hasChild, resultErr, out, notTravVars>>

\* preTraverse, lines 791-810, after the last child predicate: the stack is
\* popped, the uid field is set, nil is returned.
Return ==
    /\ frames # <<>> /\ ~ret.pending
    /\ \/ TopFrame.pci = "end"
       \/ TopFrame.pci = "uids" /\ TopFrame.childIdx > Len(sg.friends[TopFrame.uid])
    /\ LET f == TopFrame
       IN  /\ parentIds' = IF sg.IgnoreReflex /\ Len(parentIds[f.level]) > 0
                           THEN [parentIds EXCEPT ![f.level] = Pop(@)]
                           ELSE parentIds
           /\ ret' = [pending |-> TRUE, level |-> f.level, uid |-> f.uid, err |-> "",
                      dst |-> IF sg.GetUid /\ ~IsEmpty(f.dst) THEN SetUID(f.dst, f.uid, "uid")
                              ELSE f.dst,
                      entryIds |-> f.entryIds]
           /\ frames' = Pop(frames)
    /\ UNCHANGED <<sg, phase, nRoot, rootIdx, hasChild, resultErr, out, notTravVars>>

\* processNodeUids, lines 460-475, and on an error toFastJSON, lines 510-512.
HandleRootReturn ==
    /\ phase = "run" /\ frames = <<>> /\ ret.pending
    /\ ret' = NoRet
    /\ IF ret.err # "" /\ ~isPruned(ret.err)
       THEN /\ phase' = "done"
            /\ resultErr' = ret.err
            /\ UNCHANGED <<nRoot, rootIdx, hasChild>>
       ELSE /\ rootIdx' = rootIdx + 1
            /\ IF ret.err # "" \/ IsEmpty(ret.dst)
               THEN UNCHANGED <<nRoot, hasChild>>
               ELSE /\ hasChild' = TRUE
                    /\ nRoot' = AddListChild(nRoot, "people", ret.dst)
            /\ UNCHANGED <<phase, resultErr>>
    /\ UNCHANGED <<sg, frames, parentIds, out, notTravVars>>

\* processNodeUids, lines 487-491, then toFastJSON, lines 519-525.
Finish ==
    /\ phase = "run" /\ frames = <<>> /\ ~ret.pending
    /\ rootIdx > Len(sg.rootUids)
    /\ LET n2 == IF hasChild THEN nRoot ELSE AddListChild(nRoot, "people", EmptyNode)
       IN  /\ out' = toFastJSONWrite(n2)
           /\ nRoot' = setOrder(n2)
    /\ phase' = "done"
    /\ UNCHANGED <<sg, rootIdx, hasChild, frames, ret, parentIds, resultErr, notTravVars>>

TravNext ==
    \/ CallRoot
    \/ StepName
    \/ StepFriend
    \/ CallChild
    \/ HandleReturn
    \/ Return
    \/ HandleRootReturn
    \/ Finish

SpecTrav == TravInit /\ [][TravNext]_vars

(***************************************************************************)
(* Properties of the traversal.                                            *)
(***************************************************************************)
\* The uids of the open preTraverse calls, outermost first.
OpenPath == [i \in 1..Len(frames) |-> frames[i].uid]

\* The query of the chain A -> B -> A under IgnoreReflex: one root uid 1 whose
\* only friend is 2, whose only friend is 1, at least three levels, no fault.
ChainABA ==
    /\ sg.IgnoreReflex
    /\ sg.depth >= 3
    /\ sg.rootUids = <<1>>
    /\ sg.friends[1] = <<2>>
    /\ sg.friends[2] = <<1>>
    /\ sg.fault = NoFault

UidField(uid) == IF sg.GetUid THEN ",\"uid\":" \o UidBytes(uid) ELSE ""

\* What ToJson writes for ChainABA: Alice with her friend Bob, and nothing
\* under Bob for the second visit to Alice.
ChainABAOut ==
    LET bob == "{\"name\":\"Bob\"" \o UidField(2) \o "}"
    IN  "{\"people\":[{\"name\":\"Alice\",\"friend\":"
        \o (IF sg.List THEN "[" \o bob \o "]" ELSE bob)
        \o UidField(1) \o "}]}"

\* C6: under IgnoreReflex no uid is open twice on the recursion path, at any
\* depth; a traversal without a fault in its results returns no error; for
\* the chain A -> B -> A the second visit to A adds nothing to the output.
C6_CycleGuard ==
    /\ sg.IgnoreReflex =>
          \A i, j \in 1..Len(frames) : i # j => frames[i].uid # frames[j].uid
    /\ (phase = "done" /\ sg.fault.kind \in {"none", "noname"}) => resultErr = ""
    /\ (phase = "done" /\ ChainABA) => Bytes(out) = ChainABAOut

\* ToJson has returned for the chain A -> B -> A.
C6_Witness ==
    /\ phase = "done"
    /\ ChainABA
    /\ sg.GetUid
    /\ resultErr = ""

\* The query of the scenario: one level, one matched uid 0x1 whose name is
\* Alice, get-uid enabled.
OnePerson ==
    /\ sg.depth = 1
    /\ sg.rootUids = <<1>>
    /\ sg.fault = NoFault
    /\ sg.GetUid

\* C7 as stated: the output is {"people":[{"uid":"0x1","name":"Alice"}]}.
C7_Original ==
    (phase = "done" /\ OnePerson) =>
        /\ resultErr = ""
        /\ Bytes(out) = "{\"people\":[{\"uid\":\"0x1\",\"name\":\"Alice\"}]}"

\* C7, amended: ToJson returns exactly {"people":[{"name":"Alice","uid":"0x1"}]}:
\* the uid field is set after the child predicates and so follows the scalar field.
C7_FieldOrder ==
    (phase = "done" /\ OnePerson) =>
        /\ resultErr = ""
        /\ Bytes(out) = "{\"people\":[{\"name\":\"Alice\",\"uid\":\"0x1\"}]}"

\* ToJson has returned for the scenario.
C7_Witness ==
    /\ phase = "done"
    /\ OnePerson
    /\ out # <<>>

\* A step taken when a child call has just returned the pruned signal to an
\* open call: that call stays open with its output untouched, notes the uid
\* as invalid and moves to its next destination uid.
PrunedInFrame ==
    (ret.pending /\ ret.err = "_INV_" /\ frames # <<>>) =>
        /\ ~ret'.pending
        /\ Len(frames') = Len(frames)
        /\ frames' = SetFrame([TopFrame EXCEPT
                                  !.childIdx = @ + 1,
                                  !.invalidUids = @ \cup {sg.friends[TopFrame.uid][TopFrame.childIdx]}])

\* The same at the root: processNodeUids goes on to its next uid.
PrunedAtRoot ==
    (ret.pending /\ ret.err = "_INV_" /\ frames = <<>>) =>
        /\ ~ret'.pending
        /\ phase' = "run" /\ resultErr' = ""
        /\ rootIdx' = rootIdx + 1
        /\ nRoot' = nRoot

\* A step taken when a child call has just returned any other error: the
\* caller returns that error in turn, and ToJson returns it.
ErrorAborts ==
    (ret.pending /\ ret.err \notin {"", "_INV_"}) =>
        IF frames = <<>>
        THEN phase' = "done" /\ resultErr' = ret.err /\ out' = <<>>
        ELSE ret'.pending /\ ret'.err = ret.err /\ frames' = Pop(frames)

\* A step taken by a call at a destination uid it has not noted as invalid:
\* the child call is made (and returns at once when the uid is on the stack).
OthersTraversed ==
    (/\ frames # <<>> /\ ~ret.pending /\ TopFrame.pci = "uids"
     /\ TopFrame.childIdx <= Len(sg.friends[TopFrame.uid])
     /\ sg.friends[TopFrame.uid][TopFrame.childIdx] \notin TopFrame.invalidUids)
    => \/ /\ frames' = Append(frames, frames'[Len(frames')])
          /\ frames'[Len(frames')].uid = sg.friends[TopFrame.uid][TopFrame.childIdx]
          /\ frames'[Len(frames')].level = TopFrame.level + 1
       \/ /\ ret'.pending /\ ret'.err = ""
          /\ sg.IgnoreReflex
          /\ alreadySeen(parentIds'[TopFrame.level + 1],
                         sg.friends[TopFrame.uid][TopFrame.childIdx])

\* A step taken when a child call has just returned a non-empty node without
\* an error: the node is attached to the caller's output.
OthersAttached ==
    (ret.pending /\ ret.err = "" /\ frames # <<>> /\ ~IsEmpty(ret.dst)) =>
        /\ Len(frames') = Len(frames)
        /\ Size(frames'[Len(frames')].dst) >= Size(TopFrame.dst) + Size(ret.dst) - 1

\* The uids a call has noted as invalid are uids whose call returned the signal.
OnlyPrunedSkipped ==
    \A i \in 1..Len(frames) :
        frames[i].invalidUids \subseteq
            {u \in Uids : sg.fault.kind = "conv" /\ sg.fault.err = "_INV_" /\ sg.fault.uid = u}

\* C8: the pruned signal returned by a child call is caught by the caller,
\* which skips that destination uid only, stays open and returns no error for
\* it; the other destination uids are traversed and attached; ToJson never
\* returns the signal; any other error aborts the traversal.
C8_PrunedSignal ==
    /\ [](phase = "done" => resultErr # "_INV_")
    /\ []OnlyPrunedSkipped
    /\ [][PrunedInFrame]_vars
    /\ [][PrunedAtRoot]_vars
    /\ [][ErrorAborts]_vars
    /\ [][OthersTraversed]_vars
    /\ [][OthersAttached]_vars

\* A child call has returned the pruned signal to a caller that has a further
\* destination uid after this one.
C8_Witness ==
    /\ ret.pending /\ ret.err = "_INV_"
    /\ frames # <<>>
    /\ TopFrame.childIdx < Len(sg.friends[TopFrame.uid])

\* C9: whenever a preTraverse call returns, the ancestor stack of its level
\* is what it was when the call was entered; and under IgnoreReflex the stack
\* of the innermost open call lists exactly the uids of the open calls.
C9_StackRestored ==
    /\ ret.pending => parentIds[ret.level] = ret.entryIds
    /\ (sg.IgnoreReflex /\ frames # <<>> /\ ~ret.pending) =>
          parentIds[TopFrame.level] = OpenPath

(***************************************************************************)
(* Bracketing of the encoder's output.                                     *)
(***************************************************************************)
\* Scans the writes ws with the brackets still open in open, innermost last:
\* TRUE iff every "]" closes an innermost open "[", every "}" closes an
\* innermost open "{", and nothing is left open at the end.
RECURSIVE Bracketed(_, _)
Bracketed(ws, open) ==
    IF ws = <<>> THEN open = <<>>
    ELSE LET w == Head(ws)
         IN  IF w \in {"[", "{"} THEN Bracketed(Tail(ws), Append(open, w))
             ELSE IF w \in {"]", "}"}
             THEN /\ open # <<>>
                  /\ open[Len(open)] = (IF w = "]" THEN "[" ELSE "{")
                  /\ Bracketed(Tail(ws), SubSeq(open, 1, Len(open) - 1))
             ELSE Bracketed(Tail(ws), open)

WellBracketed(ws) == Bracketed(ws, <<>>)

\* The number of writes of w in ws.
RECURSIVE Count(_, _)
Count(ws, w) ==
    IF ws = <<>> THEN 0 ELSE (IF Head(ws) = w THEN 1 ELSE 0) + Count(Tail(ws), w)

\* C11: what encode writes for the root of any tree the operations build is
\* well bracketed, whatever the sibling names and the isChild/list flags:
\* every "[" is closed by its "]" before the enclosing "}", and no "]" is
\* written without an open "[".
C11_WellBracketed ==
    encoded =>
        /\ WellBracketed(out)
        /\ Len(Root.attrs) > 0 => out = encode(Root)

\* The root has been serialised with a wrapped single child followed by a
\* group of two wrapped children of another name, so that two arrays were
\* written, the second one closed at the last child.
C11_Witness ==
    /\ encoded
    /\ Len(Root.attrs) = 3
    /\ Root.attrs[1].attr # Root.attrs[2].attr
    /\ Root.attrs[2].attr = Root.attrs[3].attr
    /\ Wrapped(Root.attrs[1])
    /\ Wrapped(Root.attrs[3])
    /\ Count(out, "[") = 2
    /\ Count(out, "]") = 2

====
